---- MODULE Spec2Model ----
(***************************************************************************)
(* Model of src/dataset/dbengine.py: DBengine.execute_queries and          *)
(* DBengine.execute_queries_w_backup, the dispatch in DBengine._apply_func *)
(* (sequential list(map(...)) when pool_size <= 1, multiprocessing         *)
(* Pool.map otherwise) and the two task functions _execute_query and       *)
(* _execute_query_w_backup.                                                *)
(*                                                                         *)
(* Two executors are constructed on the same database, one with            *)
(* pool_size = 1 ("seq") and one with pool_size > 1 ("pool"); the same     *)
(* batch is submitted to the first and then to the second.                 *)
(***************************************************************************)
EXTENDS Integers, Sequences, FiniteSets, TLC

\* ------------------------------------------------------------------ bounds
MaxN == 3       \* longest batch submitted
MaxPool == 2    \* largest pool_size of the pooled executor
MaxRuns == 2    \* calls of create_db_table_from_query in a row

\* ------------------------------------------------------- program constants
timeout == 60000        \* DBengine.__init__ default, milliseconds
PoolChunkFactor == 4    \* Pool.map: chunks per worker process

\* ------------------------------------------------------------ the database
\* Statement texts the batches are built from.
Q1 == "SELECT 1"
Q2 == "SELECT 2"
QSleep == "SELECT pg_sleep(100)"
QBad == "SELECT 1/0"
QCancel == "SELECT pg_cancel_backend(pg_backend_pid())"  \* cancels itself
NoBackup == ""          \* a falsy query_backup (None or the empty string)

PrimaryQueries == {Q1, QSleep, QBad}
BackupQueries == {NoBackup, Q2, QBad}

\* Running time of a statement on the server, in milliseconds.
Duration(q) == IF q = QSleep THEN 100000 ELSE 1

\* Rows the server produces for a statement that runs to completion
\* (a list of tuples; pg_sleep returns one row holding a void value).
Rows(q) ==
    CASE q = Q1 -> << <<1>> >>
      [] q = Q2 -> << <<2>> >>
      [] q = QSleep -> << <<0>> >>
      [] OTHER -> << >>

\* Exceptions of the driver, by class name.
NoExc == "none"
OperationalError == "OperationalError"      \* connection refused
DivisionByZero == "DivisionByZero"          \* a non-timeout execution error
QueryCanceledError == "QueryCanceledError"  \* statement cancelled: by the
                                            \* timeout or on a user's request

\* Outcome of cur.execute(q); cur.fetchall() on a connection whose
\* statement_timeout is t (0: no timeout): the exception raised, or NoExc.
ServerOutcome(q, t) ==
    IF q = QBad THEN DivisionByZero
    ELSE IF q = QCancel THEN QueryCanceledError
    ELSE IF t > 0 /\ Duration(q) > t THEN QueryCanceledError
    ELSE NoExc

\* The cancellation of q is the statement timeout's doing.
CancelledByTimeout(q, t) ==
    ServerOutcome(q, t) = QueryCanceledError /\ q # QCancel

\* -------------------------------------------------------------------- state
Executors == {"seq", "pool"}
Modes == {"execute_queries", "execute_queries_w_backup"}
None == << <<-1>> >>    \* an unset slot of Pool.map's result list

VARIABLES
    pool_size,  \* [Executors -> Nat]: the pool_size each executor was built with
    mode,       \* which batch method the caller invokes
    queries,    \* the batch: a sequence of [query, backup]
    dbUp,       \* whether the server accepts connections
    call,       \* [Executors -> "idle" | "running" | "returned" | "raised"]
    task,       \* [Executors -> [1..N -> [pc, res, exc]]]
    conns,      \* [Executors -> [1..N -> Seq of connections the task opened]]
    value,      \* [Executors -> results gathered so far]
    mapExc,     \* [Executors -> first exception Pool.map received, or NoExc]
    raisedBy,   \* [Executors -> index of the task whose exception is reported]
    results,    \* [Executors -> the list the call returned]
    error,      \* [Executors -> the exception the call raised, or NoExc]
    tables,     \* [TableNames -> the rows of the table, or NoTable]
    ddl         \* create_db_table_from_query: its arguments and progress

vars == <<pool_size, mode, queries, dbUp, call, task, conns, value,
          mapExc, raisedBy, results, error, tables, ddl>>

\* The state of the batch calls.
batchVars == <<call, task, conns, value, mapExc, raisedBy, results, error>>

N == Len(queries)
Tasks == 1..N


Connection(t) == [state |-> "open", timeout |-> t, ran |-> << >>]
NewTask == [pc |-> "pending", res |-> << >>, exc |-> NoExc]

Statements == IF mode = "execute_queries"
              THEN [query : PrimaryQueries, backup : {NoBackup}]
              ELSE [query : PrimaryQueries, backup : BackupQueries]

\* ------------------------------------------- tables of the database
TableNames == {"t", "src"}
NoTable == << <<-1>> >>                 \* the table does not exist
QFromSrc == "SELECT * FROM src"         \* a defining query reading table src
UndefinedTable == "UndefinedTable"      \* relation does not exist
DefiningQueries == {Q1, Q2, QFromSrc, QBad}
TableContents == {NoTable, << >>, << <<1>> >>, << <<2>> >>}

\* CREATE TABLE ... AS (q) on a database holding tbls: the exception raised,
\* or NoExc, and the rows of the table created.
DefiningOutcome(q, tbls) ==
    IF q = QBad THEN DivisionByZero
    ELSE IF q = QFromSrc /\ tbls["src"] = NoTable THEN UndefinedTable
    ELSE NoExc
DefiningRows(q, tbls) == IF q = QFromSrc THEN tbls["src"] ELSE Rows(q)

\* No call of create_db_table_from_query made or under way.
NoDDL(name, query) ==
    [name |-> name, query |-> query, pc |-> "idle", runs |-> << >>,
     before |-> [n \in TableNames |-> NoTable],
     snapshot |-> [n \in TableNames |-> NoTable],
     first |-> [n \in TableNames |-> NoTable]]

\* ------------------------------------------------------ DBengine.__init__
\* self._pool = Pool(pool_size) if pool_size > 1 else None
HasPool(e) == pool_size[e] > 1

Init ==
    /\ pool_size \in {f \in [Executors -> 1..MaxPool] :
                         f["seq"] = 1 /\ f["pool"] > 1}
    /\ mode \in Modes
    /\ \E n \in 0..MaxN : queries \in [1..n -> Statements]
    /\ dbUp \in BOOLEAN
    /\ call = [e \in Executors |-> "idle"]
    /\ task = [e \in Executors |-> [i \in Tasks |-> NewTask]]
    /\ conns = [e \in Executors |-> [i \in Tasks |-> << >>]]
    /\ value = [e \in Executors |-> << >>]
    /\ mapExc = [e \in Executors |-> NoExc]
    /\ raisedBy = [e \in Executors |-> 0]
    /\ results = [e \in Executors |-> << >>]
    /\ error = [e \in Executors |-> NoExc]
    /\ tables = [n \in TableNames |-> NoTable]
    /\ ddl = NoDDL("t", Q1)

\* ------------------------------------------------- Pool.map's chunking
\* chunksize, extra = divmod(len(iterable), len(pool) * 4); if extra: += 1
ChunkSize(e) ==
    LET d == N \div (pool_size[e] * PoolChunkFactor)
        r == N % (pool_size[e] * PoolChunkFactor)
    IN  IF r # 0 THEN d + 1 ELSE d

ChunkOf(e, i) == ((i - 1) \div ChunkSize(e)) + 1
Chunks(e) == {ChunkOf(e, i) : i \in Tasks}
ChunkTasks(e, c) == {i \in Tasks : ChunkOf(e, i) = c}
ChunkFirst(e, c) == (c - 1) * ChunkSize(e) + 1
ChunkLast(e, c) == IF c * ChunkSize(e) < N THEN c * ChunkSize(e) ELSE N

\* A worker has taken the chunk off the task queue.
ChunkTaken(e, c) == task[e][ChunkFirst(e, c)].pc # "pending"
\* The worker has put the chunk's result (the list, or the exception).
ChunkDone(e, c) ==
    \/ \E i \in ChunkTasks(e, c) : task[e][i].pc = "raised"
    \/ \A i \in ChunkTasks(e, c) : task[e][i].pc = "returned"
BusyWorkers(e) == Cardinality({c \in Chunks(e) : ChunkTaken(e, c) /\ ~ChunkDone(e, c)})

\* Mutant of CanStart: a worker that took a chunk never takes another.
CanStartWorkersNeverFreed(e, i) ==
    /\ call[e] = "running"
    /\ task[e][i].pc = "pending"
    /\ IF HasPool(e)
       THEN IF i = ChunkFirst(e, ChunkOf(e, i))
            THEN /\ \A c \in Chunks(e) : c < ChunkOf(e, i) => ChunkTaken(e, c)
                 /\ Cardinality({c \in Chunks(e) : ChunkTaken(e, c)}) < pool_size[e]
            ELSE task[e][i - 1].pc = "returned"
       ELSE IF i = 1 THEN TRUE ELSE task[e][i - 1].pc = "returned"

\* --------------------------------------------------- DBengine._apply_func
\* Task i may start now: on the caller's thread after task i-1 returned
\* (list(map(func, collection))), or on a free worker that takes the next
\* chunk off the FIFO task queue (self._pool.map(func, collection)).
CanStart(e, i) ==
    /\ call[e] = "running"
    /\ task[e][i].pc = "pending"
    /\ IF HasPool(e)
       THEN IF i = ChunkFirst(e, ChunkOf(e, i))
            THEN /\ \A c \in Chunks(e) : c < ChunkOf(e, i) => ChunkTaken(e, c)
                 /\ BusyWorkers(e) < pool_size[e]
            ELSE task[e][i - 1].pc = "returned"
       ELSE IF i = 1 THEN TRUE ELSE task[e][i - 1].pc = "returned"

\* The connections cs of a task whose frame is gone: one it never closed is
\* no longer referenced by the program ("dropped").  Nothing in the program
\* closes it any more; it stays open until the runtime finalises the object,
\* at a moment the language does not fix.
Dropped(cs) ==
    [k \in DOMAIN cs |->
        IF cs[k].state = "open" THEN [cs[k] EXCEPT !.state = "dropped"] ELSE cs[k]]

\* Mutant of TaskReturns: the pool stores a result at the first free slot,
\* in the order the results arrive, not at the task's own index.
TaskReturnsInArrivalOrder(e, i, r, cs) ==
    /\ task' = [task EXCEPT ![e][i] = [pc |-> "returned", res |-> r, exc |-> NoExc]]
    /\ conns' = [conns EXCEPT ![e][i] = Dropped(cs)]
    /\ value' = [value EXCEPT ![e] =
          IF ~HasPool(e) THEN Append(value[e], r)
          ELSE LET k == CHOOSE k \in Tasks :
                           /\ value[e][k] = None
                           /\ \A j \in Tasks : j < k => value[e][j] # None
               IN  [value[e] EXCEPT ![k] = r]]
    /\ UNCHANGED <<call, mapExc, raisedBy, results, error>>

\* Task i returns r; cs are the connections it opened.  Sequential path: the
\* result is appended to the list being built.  Pool: the worker puts the
\* chunk's list once the chunk's last task returned, and the result handler
\* stores it at the chunk's slots unless an exception was received before.
TaskReturns(e, i, r, cs) ==
    /\ task' = [task EXCEPT ![e][i] = [pc |-> "returned", res |-> r, exc |-> NoExc]]
    /\ conns' = [conns EXCEPT ![e][i] = Dropped(cs)]
    /\ value' = [value EXCEPT ![e] =
          IF ~HasPool(e) THEN Append(value[e], r)
          ELSE IF i = ChunkLast(e, ChunkOf(e, i)) /\ mapExc[e] = NoExc
               THEN [j \in Tasks |->
                       IF j = i THEN r
                       ELSE IF ChunkOf(e, j) = ChunkOf(e, i) THEN task[e][j].res
                       ELSE value[e][j]]
               ELSE value[e]]
    /\ UNCHANGED <<call, mapExc, raisedBy, results, error>>

\* Task i raises x.  Sequential path: the exception leaves list(map(...)) and
\* the batch method at once, its traceback keeping the task's frame (and
\* connection) alive.  Pool: the worker sends the exception and drops it; the
\* result handler keeps the first exception it receives.
TaskRaises(e, i, x, cs) ==
    /\ task' = [task EXCEPT ![e][i] = [pc |-> "raised", res |-> << >>, exc |-> x]]
    /\ conns' = [conns EXCEPT ![e][i] = IF HasPool(e) THEN Dropped(cs) ELSE cs]
    /\ IF HasPool(e)
       THEN /\ mapExc' = [mapExc EXCEPT ![e] = IF @ = NoExc THEN x ELSE @]
            /\ raisedBy' = [raisedBy EXCEPT ![e] = IF mapExc[e] = NoExc THEN i ELSE @]
            /\ UNCHANGED <<call, error>>
       ELSE /\ call' = [call EXCEPT ![e] = "raised"]
            /\ error' = [error EXCEPT ![e] = x]
            /\ raisedBy' = [raisedBy EXCEPT ![e] = i]
            /\ UNCHANGED mapExc
    /\ UNCHANGED <<value, results>>

\* ------------- DBengine.execute_queries / execute_queries_w_backup (entry)
Call(e) ==
    /\ call[e] = "idle"
    /\ e = "pool" => call["seq"] \in {"returned", "raised"}
    /\ call' = [call EXCEPT ![e] = "running"]
    /\ value' = [value EXCEPT ![e] = IF HasPool(e) THEN [i \in Tasks |-> None] ELSE << >>]
    /\ UNCHANGED <<pool_size, mode, queries, dbUp, tables, ddl, task, conns,
                   mapExc, raisedBy, results, error>>

\* Mutant of Connect: the statement timeout is set in seconds.
ConnectTimeoutInSeconds(e, i) ==
    /\ CanStart(e, i)
    /\ IF dbUp
       THEN /\ task' = [task EXCEPT ![e][i].pc = "connected"]
            /\ conns' = [conns EXCEPT ![e][i] =
                  <<Connection(IF mode = "execute_queries_w_backup"
                               THEN timeout \div 1000 ELSE 0)>>]
            /\ UNCHANGED <<call, value, mapExc, raisedBy, results, error>>
       ELSE TaskRaises(e, i, OperationalError, << >>)
    /\ UNCHANGED <<pool_size, mode, queries, dbUp, tables, ddl>>

\* Mutant of Connect: the pooled workers never set the statement timeout.
ConnectNoTimeoutInPool(e, i) ==
    /\ CanStart(e, i)
    /\ IF dbUp
       THEN /\ task' = [task EXCEPT ![e][i].pc = "connected"]
            /\ conns' = [conns EXCEPT ![e][i] =
                  <<Connection(IF mode = "execute_queries_w_backup" /\ ~HasPool(e)
                               THEN timeout ELSE 0)>>]
            /\ UNCHANGED <<call, value, mapExc, raisedBy, results, error>>
       ELSE TaskRaises(e, i, OperationalError, << >>)
    /\ UNCHANGED <<pool_size, mode, queries, dbUp, tables, ddl>>

\* ---------------------------- psycopg2.connect(conn_args) of the primary
\* _execute_query: con = connect(); cur = con.cursor()
\* _execute_query_w_backup: the same, then SET statement_timeout to timeout
Connect(e, i) ==
    /\ CanStart(e, i)
    /\ IF dbUp
       THEN /\ task' = [task EXCEPT ![e][i].pc = "connected"]
            /\ conns' = [conns EXCEPT ![e][i] =
                  <<Connection(IF mode = "execute_queries_w_backup" THEN timeout ELSE 0)>>]
            /\ UNCHANGED <<call, value, mapExc, raisedBy, results, error>>
       ELSE TaskRaises(e, i, OperationalError, << >>)
    /\ UNCHANGED <<pool_size, mode, queries, dbUp, tables, ddl>>

Ran(con, q) == [con EXCEPT !.ran = Append(@, q)]
Closed(con) == [con EXCEPT !.state = "closed"]

\* _execute_query: cur.execute(query); res = cur.fetchall(); con.close(); return res
_execute_query(e, i) ==
    LET con == Ran(conns[e][i][1], queries[i].query)
        out == ServerOutcome(queries[i].query, con.timeout)
    IN  IF out = NoExc
        THEN TaskReturns(e, i, Rows(queries[i].query), <<Closed(con)>>)
        ELSE TaskRaises(e, i, out, <<con>>)

\* Mutant of _execute_query_w_backup: the cancelled primary's connection is
\* not closed before the backup's connection is opened.
ExecuteQueryWBackupKeepsOpen(e, i) ==
    LET con == Ran(conns[e][i][1], queries[i].query)
        out == ServerOutcome(queries[i].query, con.timeout)
    IN  IF out = NoExc
        THEN TaskReturns(e, i, Rows(queries[i].query), <<con>>)
        ELSE IF out = QueryCanceledError
        THEN IF queries[i].backup = NoBackup
             THEN TaskReturns(e, i, << >>, <<con>>)
             ELSE /\ task' = [task EXCEPT ![e][i].pc = "backup_pending"]
                  /\ conns' = [conns EXCEPT ![e][i] = <<con>>]
                  /\ UNCHANGED <<call, value, mapExc, raisedBy, results, error>>
        ELSE TaskRaises(e, i, out, <<con>>)

\* Mutant of _execute_query_w_backup: a cancelled primary without a backup
\* re-raises instead of returning the empty list.
ExecuteQueryWBackupReraises(e, i) ==
    LET con == Ran(conns[e][i][1], queries[i].query)
        out == ServerOutcome(queries[i].query, con.timeout)
    IN  IF out = NoExc
        THEN TaskReturns(e, i, Rows(queries[i].query), <<con>>)
        ELSE IF out = QueryCanceledError /\ queries[i].backup # NoBackup
        THEN /\ task' = [task EXCEPT ![e][i].pc = "backup_pending"]
             /\ conns' = [conns EXCEPT ![e][i] = <<Closed(con)>>]
             /\ UNCHANGED <<call, value, mapExc, raisedBy, results, error>>
        ELSE TaskRaises(e, i, out, <<con>>)

\* _execute_query_w_backup: try: cur.execute(query); res = cur.fetchall()
\* except QueryCanceledError: return [] without a backup, else con.close()
\* and go on to the backup; after the try: return res.
_execute_query_w_backup(e, i) ==
    LET con == Ran(conns[e][i][1], queries[i].query)
        out == ServerOutcome(queries[i].query, con.timeout)
    IN  IF out = NoExc
        THEN TaskReturns(e, i, Rows(queries[i].query), <<con>>)
        ELSE IF out = QueryCanceledError
        THEN IF queries[i].backup = NoBackup
             THEN TaskReturns(e, i, << >>, <<con>>)
             ELSE /\ task' = [task EXCEPT ![e][i].pc = "backup_pending"]
                  /\ conns' = [conns EXCEPT ![e][i] = <<Closed(con)>>]
                  /\ UNCHANGED <<call, value, mapExc, raisedBy, results, error>>
        ELSE TaskRaises(e, i, out, <<con>>)

ExecutePrimary(e, i) ==
    /\ task[e][i].pc = "connected"
    /\ IF mode = "execute_queries"
       THEN _execute_query(e, i)
       ELSE _execute_query_w_backup(e, i)
    /\ UNCHANGED <<pool_size, mode, queries, dbUp, tables, ddl>>

\* Mutant of ConnectBackup: the statement timeout is set on the backup's
\* connection too.
ConnectBackupSetsTimeout(e, i) ==
    /\ task[e][i].pc = "backup_pending"
    /\ IF dbUp
       THEN /\ task' = [task EXCEPT ![e][i].pc = "backup_connected"]
            /\ conns' = [conns EXCEPT ![e][i] = Append(@, Connection(timeout))]
            /\ UNCHANGED <<call, value, mapExc, raisedBy, results, error>>
       ELSE TaskRaises(e, i, OperationalError, conns[e][i])
    /\ UNCHANGED <<pool_size, mode, queries, dbUp, tables, ddl>>

\* con = psycopg2.connect(conn_args); cur = con.cursor()  (the backup's)
ConnectBackup(e, i) ==
    /\ task[e][i].pc = "backup_pending"
    /\ IF dbUp
       THEN /\ task' = [task EXCEPT ![e][i].pc = "backup_connected"]
            /\ conns' = [conns EXCEPT ![e][i] = Append(@, Connection(0))]
            /\ UNCHANGED <<call, value, mapExc, raisedBy, results, error>>
       ELSE TaskRaises(e, i, OperationalError, conns[e][i])
    /\ UNCHANGED <<pool_size, mode, queries, dbUp, tables, ddl>>

\* Mutant of ExecuteBackup: a failure of the backup is caught and the empty
\* list returned.
ExecuteBackupSwallowsFailure(e, i) ==
    /\ task[e][i].pc = "backup_connected"
    /\ LET con == Ran(conns[e][i][2], queries[i].backup)
           out == ServerOutcome(queries[i].backup, con.timeout)
       IN  IF out = NoExc
           THEN TaskReturns(e, i, Rows(queries[i].backup), <<conns[e][i][1], Closed(con)>>)
           ELSE TaskReturns(e, i, << >>, <<conns[e][i][1], con>>)
    /\ UNCHANGED <<pool_size, mode, queries, dbUp, tables, ddl>>

\* Mutant of ExecuteBackup: the new cursor executes the primary again.
ExecuteBackupRunsPrimary(e, i) ==
    /\ task[e][i].pc = "backup_connected"
    /\ LET con == Ran(conns[e][i][2], queries[i].query)
           out == ServerOutcome(queries[i].query, con.timeout)
       IN  IF out = NoExc
           THEN TaskReturns(e, i, Rows(queries[i].query), <<conns[e][i][1], Closed(con)>>)
           ELSE TaskRaises(e, i, out, <<conns[e][i][1], con>>)
    /\ UNCHANGED <<pool_size, mode, queries, dbUp, tables, ddl>>

\* cur.execute(query_backup); res = cur.fetchall(); con.close(); return res
ExecuteBackup(e, i) ==
    /\ task[e][i].pc = "backup_connected"
    /\ LET con == Ran(conns[e][i][2], queries[i].backup)
           out == ServerOutcome(queries[i].backup, con.timeout)
       IN  IF out = NoExc
           THEN TaskReturns(e, i, Rows(queries[i].backup), <<conns[e][i][1], Closed(con)>>)
           ELSE TaskRaises(e, i, out, <<conns[e][i][1], con>>)
    /\ UNCHANGED <<pool_size, mode, queries, dbUp, tables, ddl>>

\* Mutant of MapReady: the pool's result counts as ready with the first chunk.
MapReadyOnFirstChunk(e) ==
    IF HasPool(e) THEN \E c \in Chunks(e) : ChunkDone(e, c)
    ELSE \A i \in Tasks : task[e][i].pc = "returned"

\* -------------------------- the end of list(map(...)) / of Pool.map
\* Pool.map's result is ready once every chunk's result has arrived; it is
\* the list, or the first exception received, which is re-raised.
MapReady(e) ==
    IF HasPool(e) THEN \A c \in Chunks(e) : ChunkDone(e, c)
    ELSE \A i \in Tasks : task[e][i].pc = "returned"

\* Mutant of Finish: the gathered list is returned although a task raised.
FinishReturnsPartial(e) ==
    /\ call[e] = "running"
    /\ MapReady(e)
    /\ call' = [call EXCEPT ![e] = "returned"]
    /\ results' = [results EXCEPT ![e] = value[e]]
    /\ UNCHANGED <<pool_size, mode, queries, dbUp, tables, ddl, task, conns,
                   value, mapExc, raisedBy, error>>

Finish(e) ==
    /\ call[e] = "running"
    /\ MapReady(e)
    /\ IF mapExc[e] # NoExc
       THEN /\ call' = [call EXCEPT ![e] = "raised"]
            /\ error' = [error EXCEPT ![e] = mapExc[e]]
            /\ UNCHANGED results
       ELSE /\ call' = [call EXCEPT ![e] = "returned"]
            /\ results' = [results EXCEPT ![e] = value[e]]
            /\ UNCHANGED error
    /\ UNCHANGED <<pool_size, mode, queries, dbUp, tables, ddl, task, conns,
                   value, mapExc, raisedBy>>

Next ==
    \/ \E e \in Executors : Call(e)
    \/ \E e \in Executors : \E i \in Tasks : Connect(e, i)
    \/ \E e \in Executors : \E i \in Tasks : ExecutePrimary(e, i)
    \/ \E e \in Executors : \E i \in Tasks : ConnectBackup(e, i)
    \/ \E e \in Executors : \E i \in Tasks : ExecuteBackup(e, i)
    \/ \E e \in Executors : Finish(e)

Spec == Init /\ [][Next]_vars

\* ------------------------------------------------------------------------
\* DBengine.create_db_table_from_query(name, query), called MaxRuns times in
\* a row with the same arguments on a database holding any tables.
InitDDL ==
    /\ pool_size = [e \in Executors |-> IF e = "seq" THEN 1 ELSE 2]
    /\ mode = "execute_queries"
    /\ queries = << >>
    /\ dbUp \in BOOLEAN
    /\ call = [e \in Executors |-> "idle"]
    /\ task = [e \in Executors |-> << >>]
    /\ conns = [e \in Executors |-> << >>]
    /\ value = [e \in Executors |-> << >>]
    /\ mapExc = [e \in Executors |-> NoExc]
    /\ raisedBy = [e \in Executors |-> 0]
    /\ results = [e \in Executors |-> << >>]
    /\ error = [e \in Executors |-> NoExc]
    /\ tables \in [TableNames -> TableContents]
    /\ \E name \in TableNames, query \in DefiningQueries : ddl = NoDDL(name, query)

\* The call raises x: the transaction of engine.begin() is rolled back.
RolledBack(x) ==
    /\ tables' = ddl.snapshot
    /\ ddl' = [ddl EXCEPT !.pc = "idle", !.runs = Append(@, x)]

\* drop = ...; create = ...; with self.engine.begin() as conn:
BeginTable ==
    /\ ddl.pc = "idle"
    /\ Len(ddl.runs) < MaxRuns
    /\ IF dbUp
       THEN /\ ddl' = [ddl EXCEPT !.pc = "begun", !.snapshot = tables,
                                  !.before = IF Len(ddl.runs) = 0 THEN tables ELSE @]
            /\ UNCHANGED tables
       ELSE /\ ddl' = [ddl EXCEPT !.runs = Append(@, OperationalError),
                                  !.before = IF Len(ddl.runs) = 0 THEN tables ELSE @]
            /\ UNCHANGED tables
    /\ UNCHANGED <<pool_size, mode, queries, dbUp, batchVars>>

\* Mutant of DropTable: DROP TABLE without IF EXISTS.
DropTableMustExist ==
    /\ ddl.pc = "begun"
    /\ IF tables[ddl.name] = NoTable
       THEN RolledBack(UndefinedTable)
       ELSE /\ tables' = [tables EXCEPT ![ddl.name] = NoTable]
            /\ ddl' = [ddl EXCEPT !.pc = "dropped"]
    /\ UNCHANGED <<pool_size, mode, queries, dbUp, batchVars>>

\* conn.execute(drop): DROP TABLE IF EXISTS "name"
DropTable ==
    /\ ddl.pc = "begun"
    /\ tables' = [tables EXCEPT ![ddl.name] = NoTable]
    /\ ddl' = [ddl EXCEPT !.pc = "dropped"]
    /\ UNCHANGED <<pool_size, mode, queries, dbUp, batchVars>>

\* conn.execute(create): CREATE TABLE "name" AS (query)
CreateTable ==
    /\ ddl.pc = "dropped"
    /\ IF DefiningOutcome(ddl.query, tables) = NoExc
       THEN /\ tables' = [tables EXCEPT ![ddl.name] = DefiningRows(ddl.query, tables)]
            /\ ddl' = [ddl EXCEPT !.pc = "created"]
       ELSE RolledBack(DefiningOutcome(ddl.query, tables))
    /\ UNCHANGED <<pool_size, mode, queries, dbUp, batchVars>>

\* the with block ends (commit); return True
CommitTable ==
    /\ ddl.pc = "created"
    /\ ddl' = [ddl EXCEPT !.pc = "idle", !.runs = Append(@, "True"),
                          !.first = IF Len(ddl.runs) = 0 THEN tables ELSE @]
    /\ UNCHANGED <<tables, pool_size, mode, queries, dbUp, batchVars>>

create_db_table_from_query == BeginTable \/ DropTable \/ CreateTable \/ CommitTable

SpecDDL == InitDDL /\ [][create_db_table_from_query]_vars

\* ------------------------------------------------------------------------
\* execute_queries_w_backup on batches whose primaries are cancelled (by the
\* timeout or on a user's request) or fail, and whose backups may run longer
\* than the timeout.
CancelStatements ==
    [query : {QSleep, QCancel, QBad}, backup : {NoBackup, Q2, QSleep}]

InitBackup ==
    /\ pool_size \in {f \in [Executors -> 1..MaxPool] :
                         f["seq"] = 1 /\ f["pool"] > 1}
    /\ mode = "execute_queries_w_backup"
    /\ \E n \in 0..MaxN : queries \in [1..n -> CancelStatements]
    /\ dbUp = TRUE
    /\ call = [e \in Executors |-> "idle"]
    /\ task = [e \in Executors |-> [i \in Tasks |-> NewTask]]
    /\ conns = [e \in Executors |-> [i \in Tasks |-> << >>]]
    /\ value = [e \in Executors |-> << >>]
    /\ mapExc = [e \in Executors |-> NoExc]
    /\ raisedBy = [e \in Executors |-> 0]
    /\ results = [e \in Executors |-> << >>]
    /\ error = [e \in Executors |-> NoExc]
    /\ tables = [n \in TableNames |-> NoTable]
    /\ ddl = NoDDL("t", Q1)

SpecBackup == InitBackup /\ [][Next]_vars

\* ------------------------------------------------------------------------
\* execute_queries_w_backup under fair scheduling: the caller's thread and
\* every worker process keep running, so a step of a task that is enabled
\* is eventually taken, and the server answers every connect and statement.
FairStatements == [query : {Q1, QSleep, QBad}, backup : {NoBackup, Q2}]

InitFair ==
    /\ pool_size \in {f \in [Executors -> 1..MaxPool] :
                         f["seq"] = 1 /\ f["pool"] > 1}
    /\ mode = "execute_queries_w_backup"
    /\ \E n \in 0..MaxN : queries \in [1..n -> FairStatements]
    /\ dbUp = TRUE
    /\ call = [e \in Executors |-> "idle"]
    /\ task = [e \in Executors |-> [i \in Tasks |-> NewTask]]
    /\ conns = [e \in Executors |-> [i \in Tasks |-> << >>]]
    /\ value = [e \in Executors |-> << >>]
    /\ mapExc = [e \in Executors |-> NoExc]
    /\ raisedBy = [e \in Executors |-> 0]
    /\ results = [e \in Executors |-> << >>]
    /\ error = [e \in Executors |-> NoExc]
    /\ tables = [n \in TableNames |-> NoTable]
    /\ ddl = NoDDL("t", Q1)

Fairness ==
    /\ \A e \in Executors : WF_vars(Call(e)) /\ WF_vars(Finish(e))
    /\ \A e \in Executors : \A i \in 1..MaxN :
          /\ WF_vars(i \in Tasks /\ Connect(e, i))
          /\ WF_vars(i \in Tasks /\ ExecutePrimary(e, i))
          /\ WF_vars(i \in Tasks /\ ConnectBackup(e, i))
          /\ WF_vars(i \in Tasks /\ ExecuteBackup(e, i))

FairSpec == InitFair /\ [][Next]_vars /\ Fairness


\* ================================================================ claims
Ended(e) == call[e] \in {"returned", "raised"}
NoTaskRaised(e) == \A i \in Tasks : task[e][i].pc # "raised"
AnyTaskRaised(e) == \E i \in Tasks : task[e][i].pc = "raised"

\* The primary of task i ran and the server cancelled it because it ran
\* longer than the statement timeout set on its connection.
TimedOut(e, i) ==
    /\ Len(conns[e][i]) >= 1
    /\ conns[e][i][1].ran # << >>
    /\ CancelledByTimeout(queries[i].query, conns[e][i][1].timeout)

\* Connections opened by the batch on executor e that nothing has closed.
NotClosed(e) ==
    {p \in Tasks \X {1, 2} :
        /\ p[2] <= Len(conns[e][p[1]])
        /\ conns[e][p[1]][p[2]].state # "closed"}

\* Statements of the batch that executor e has run against the database.
Executed(e) ==
    {i \in Tasks : \E k \in DOMAIN conns[e][i] : conns[e][i][k].ran # << >>}

\* C1: when a batch call has ended and none of its N tasks raised, the call
\* returned a list of exactly N results, and element i is the result task i
\* produced for statement i (for execute_queries: the rows of statement i),
\* whatever the order in which the workers ran the tasks.
C1_ResultsInSubmissionOrder ==
    \A e \in Executors :
        (Ended(e) /\ NoTaskRaised(e)) =>
            /\ call[e] = "returned"
            /\ Len(results[e]) = N
            /\ \A i \in Tasks :
                  /\ task[e][i].pc = "returned"
                  /\ results[e][i] = task[e][i].res
                  /\ mode = "execute_queries" => results[e][i] = Rows(queries[i].query)

C1_Witness ==
    /\ call["pool"] = "returned"
    /\ N > pool_size["pool"]
    /\ results["pool"][1] # results["pool"][2]
    /\ results["pool"][2] # results["pool"][3]

\* C2: in execute_queries_w_backup a statement whose primary was cancelled
\* by the timeout and that has no backup ends with the empty result, never
\* with an exception; a call that returned holds the empty list at that index
\* and every other task's result at its own index; and a call that raised
\* did so because of another task.
C2_TimeoutWithoutBackupIsEmpty ==
    \A e \in Executors : \A i \in Tasks :
        (TimedOut(e, i) /\ queries[i].backup = NoBackup) =>
            /\ task[e][i].pc = "returned"
            /\ task[e][i].res = << >>
            /\ call[e] = "returned" =>
                  /\ results[e][i] = << >>
                  /\ \A j \in Tasks : results[e][j] = task[e][j].res
            /\ call[e] = "raised" =>
                  /\ raisedBy[e] # i
                  /\ \E j \in Tasks \ {i} : task[e][j].pc = "raised"
            /\ (Ended(e) /\ \A j \in Tasks \ {i} : task[e][j].pc # "raised") =>
                  call[e] = "returned"

C2_Witness ==
    \E i, j \in Tasks :
        /\ TimedOut("pool", i)
        /\ queries[i].backup = NoBackup
        /\ call["pool"] = "returned"
        /\ results["pool"][i] = << >>
        /\ results["pool"][j] = Rows(Q1)

\* C3: in execute_queries_w_backup a statement whose primary was cancelled
\* by the timeout and whose backup ran to completion yields the backup's
\* rows at its index: not the empty list and not the rows of the primary.
C3_TimeoutWithBackupYieldsBackupRows ==
    \A e \in Executors : \A i \in Tasks :
        (/\ TimedOut(e, i)
         /\ queries[i].backup # NoBackup
         /\ task[e][i].pc = "returned") =>
            /\ task[e][i].res = Rows(queries[i].backup)
            /\ task[e][i].res # << >>
            /\ task[e][i].res # Rows(queries[i].query)
            /\ call[e] = "returned" => results[e][i] = Rows(queries[i].backup)

C3_Witness ==
    /\ N = 2
    /\ queries[1] = [query |-> Q1, backup |-> NoBackup]
    /\ queries[2] = [query |-> QSleep, backup |-> Q2]
    /\ call["pool"] = "returned"
    /\ results["pool"] = << Rows(Q1), Rows(Q2) >>

\* C4: once a task of a batch has raised, the batch call never returns a
\* list, neither a full nor a partly filled one: it is still running or it
\* has raised an exception; on the sequential and on the pooled path alike.
C4_FailureFailsTheBatch ==
    \A e \in Executors :
        AnyTaskRaised(e) =>
            /\ call[e] \in {"running", "raised"}
            /\ results[e] = << >>
            /\ call[e] = "raised" => error[e] # NoExc
            /\ (call[e] = "running" /\ MapReady(e)) => mapExc[e] # NoExc

C4_Witness ==
    /\ call["seq"] = "raised"
    /\ call["pool"] = "raised"
    /\ error["pool"] = DivisionByZero
    /\ \E i \in Tasks : task["pool"][i].pc = "returned" /\ task["pool"][i].res # << >>

\* C5: when a batch call raised because a statement failed with a
\* non-timeout error, the exception the caller receives identifies the
\* failing statement by its index together with the cause: it is the
\* exception of the task reported, and no other task of the batch raised an
\* exception equal to it.
C5_ErrorIdentifiesIndex ==
    \A e \in Executors :
        (call[e] = "raised" /\ error[e] = DivisionByZero) =>
            /\ raisedBy[e] \in Tasks
            /\ error[e] = task[e][raisedBy[e]].exc
            /\ \A j \in Tasks :
                  (task[e][j].pc = "raised" /\ task[e][j].exc = error[e]) => j = raisedBy[e]

\* C6: at every instant the number of connections opened by the tasks of a
\* batch and not yet closed is at most the pool size the executor was built
\* with.
C6_AtMostPoolSizeConnections ==
    \A e \in Executors : Cardinality(NotClosed(e)) <= pool_size[e]

\* C7: when the same batch has ended on the executor with pool_size = 1 and
\* on the executor with pool_size > 1 and no task raised, both calls
\* returned, and returned equal lists.
C7_SequentialEqualsPooled ==
    (/\ Ended("seq") /\ Ended("pool")
     /\ NoTaskRaised("seq") /\ NoTaskRaised("pool")) =>
        /\ call["seq"] = "returned"
        /\ call["pool"] = "returned"
        /\ results["seq"] = results["pool"]

C7_Witness ==
    /\ call["seq"] = "returned"
    /\ call["pool"] = "returned"
    /\ N > pool_size["pool"]
    /\ \E i, j \in Tasks : TimedOut("pool", i) /\ results["pool"][i] # results["pool"][j]

\* C8: when a batch in which a statement fails has ended on both executors,
\* both calls raised, the failure reported is that of the same statement,
\* and both have executed the same statements of the batch.
C8_SameFailureBehaviour ==
    (/\ Ended("seq") /\ Ended("pool")
     /\ call["seq"] = "raised" \/ call["pool"] = "raised") =>
        /\ call["seq"] = "raised"
        /\ call["pool"] = "raised"
        /\ raisedBy["seq"] = raisedBy["pool"]
        /\ Executed("seq") = Executed("pool")

\* C9: when a batch call has raised, every connection opened by a task of
\* the batch has been closed.
C9_NoConnectionLeakOnFailure ==
    \A e \in Executors : call[e] = "raised" => NotClosed(e) = {}

\* C10: a batch call has returned only if every task of the batch has
\* returned (a result or the empty result): none is pending or running.
C10_ReturnsAfterAllTasks ==
    \A e \in Executors :
        call[e] = "returned" =>
            /\ \A i \in Tasks : task[e][i].pc = "returned"
            /\ \A i \in Tasks : results[e][i] # None

C10_Witness ==
    /\ call["pool"] = "returned"
    /\ N > pool_size["pool"]
    /\ \E i \in Tasks : TimedOut("pool", i) /\ results["pool"][i] = << >>


\* The primary of task i ran to completion (its rows were fetched).
PrimarySucceeded(e, i) ==
    /\ Len(conns[e][i]) >= 1
    /\ conns[e][i][1].ran # << >>
    /\ ServerOutcome(queries[i].query, conns[e][i][1].timeout) = NoExc

\* The backup of task i was executed.
BackupRan(e, i) == Len(conns[e][i]) = 2 /\ conns[e][i][2].ran # << >>

\* C12: after a task whose primary succeeded has returned, every connection
\* it opened has been closed, in _execute_query and _execute_query_w_backup.
C12_SuccessClosesConnection ==
    \A e \in Executors : \A i \in Tasks :
        (PrimarySucceeded(e, i) /\ task[e][i].pc = "returned") =>
            \A k \in DOMAIN conns[e][i] : conns[e][i][k].state = "closed"

\* C13: after a task whose primary was cancelled by the timeout and that has
\* no backup has returned the empty result, the connection it opened has
\* been closed.
C13_TimeoutWithoutBackupClosesConnection ==
    \A e \in Executors : \A i \in Tasks :
        (/\ TimedOut(e, i)
         /\ queries[i].backup = NoBackup
         /\ task[e][i].pc = "returned") =>
            \A k \in DOMAIN conns[e][i] : conns[e][i][k].state = "closed"

\* C15: a task has at most one connection that is not closed at any
\* instant; when it falls back, the primary's connection is closed before
\* the backup's connection is opened, and no connection executes both the
\* primary and the backup: the first ran the primary only, the second the
\* backup only.
C15_FreshConnectionForBackup ==
    \A e \in Executors : \A i \in Tasks :
        /\ Cardinality({k \in DOMAIN conns[e][i] : conns[e][i][k].state # "closed"}) <= 1
        /\ \A k \in DOMAIN conns[e][i] : Len(conns[e][i][k].ran) <= 1
        /\ task[e][i].pc = "backup_pending" =>
              /\ Len(conns[e][i]) = 1
              /\ conns[e][i][1].state = "closed"
        /\ Len(conns[e][i]) = 2 =>
              /\ conns[e][i][1].state = "closed"
              /\ conns[e][i][1].ran = <<queries[i].query>>
              /\ conns[e][i][2].ran \in {<< >>, <<queries[i].backup>>}

C15_Witness ==
    \E i \in Tasks :
        /\ task["pool"][i].pc = "backup_connected"
        /\ conns["pool"][i][1].state = "closed"
        /\ conns["pool"][i][2].state = "open"

\* C16: per task the primary is executed at most once and the backup at most
\* once, on at most two connections; a failure of the backup is not caught:
\* the task raises that exception and nothing is executed after it.
C16_NoRetryBeyondBackup ==
    \A e \in Executors : \A i \in Tasks :
        /\ Len(conns[e][i]) <= 2
        /\ Len(conns[e][i]) >= 1 => conns[e][i][1].ran \in {<< >>, <<queries[i].query>>}
        /\ Len(conns[e][i]) = 2 => conns[e][i][2].ran \in {<< >>, <<queries[i].backup>>}
        /\ (/\ BackupRan(e, i)
            /\ ServerOutcome(queries[i].backup, conns[e][i][2].timeout) # NoExc) =>
              /\ task[e][i].pc = "raised"
              /\ task[e][i].exc = ServerOutcome(queries[i].backup, conns[e][i][2].timeout)
              /\ Ended(e) => call[e] = "raised"

C16_Witness ==
    \E i \in Tasks :
        /\ BackupRan("pool", i)
        /\ queries[i].backup = QBad
        /\ task["pool"][i].pc = "raised"
        /\ call["pool"] = "raised"

C14_BackupOnlyAfterTimeout ==
    \A e \in Executors : \A i \in Tasks :
        /\ Len(conns[e][i]) = 2 => TimedOut(e, i)
        /\ (/\ Len(conns[e][i]) >= 1
            /\ conns[e][i][1].ran # << >>
            /\ ServerOutcome(queries[i].query, conns[e][i][1].timeout) # NoExc
            /\ ~TimedOut(e, i)) =>
              /\ task[e][i].pc = "raised"
              /\ Len(conns[e][i]) = 1

\* C17: the connection on which a backup runs has no statement timeout set;
\* a backup that runs longer than the configured timeout is not cancelled:
\* the task returns the backup's rows, and so does the batch call at the
\* task's index.
C17_BackupWithoutTimeout ==
    \A e \in Executors : \A i \in Tasks :
        Len(conns[e][i]) = 2 =>
            /\ conns[e][i][2].timeout = 0
            /\ (BackupRan(e, i) /\ Duration(queries[i].backup) > timeout) =>
                  /\ task[e][i].pc = "returned"
                  /\ task[e][i].res = Rows(queries[i].backup)
                  /\ call[e] = "returned" => results[e][i] = Rows(queries[i].backup)

C17_Witness ==
    \E i \in Tasks :
        /\ queries[i] = [query |-> QSleep, backup |-> QSleep]
        /\ BackupRan("pool", i)
        /\ call["pool"] = "returned"
        /\ results["pool"][i] = Rows(QSleep)


\* Task i is never run because a task before it raised: any earlier task of
\* the batch on the caller's thread, an earlier task of its chunk in the pool.
SkippedAfterRaise(e, i) ==
    \E j \in Tasks :
        /\ j < i
        /\ task[e][j].pc = "raised"
        /\ HasPool(e) => ChunkOf(e, j) = ChunkOf(e, i)

C11_DropCreateIdempotent ==
    LET done == Len(ddl.runs)
    IN  (ddl.pc = "idle" /\ done >= 1) =>
            /\ ddl.runs[done] = "True" =>
                  /\ tables[ddl.name] # NoTable
                  /\ tables[ddl.name] = DefiningRows(ddl.query, tables)
            /\ ddl.runs[1] = "True" =>
                  /\ ddl.runs[done] = "True"
                  /\ tables = ddl.first
            /\ ddl.runs[1] # "True" =>
                  /\ tables = ddl.before
                  /\ \/ ~dbUp
                     \/ DefiningOutcome(ddl.query,
                           [ddl.before EXCEPT ![ddl.name] = NoTable]) # NoExc

C11_Witness ==
    /\ ddl.pc = "idle"
    /\ ddl.runs = <<"True", "True">>
    /\ ddl.before[ddl.name] = NoTable
    /\ ddl.query = QFromSrc
    /\ tables[ddl.name] = << <<2>> >>

====
